---------------------------- MODULE Spec2Model ----------------------------
(***************************************************************************)
(* QTrace quantum-state analysis core: QuantumStateAnalyzer                *)
(* (src/quantum_core.py) and the CircuitBuilder operations that mutate its *)
(* circuit (src/circuit_builder.py).                                       *)
(*                                                                         *)
(* The circuit is a Qiskit QuantumCircuit.  What the analyzer relies on    *)
(* from it is modelled here by what the library does:                      *)
(*   - an integer qubit specifier is resolved by Python list indexing      *)
(*     into circuit.qubits, so -N..-1 alias N-1..0 and anything else       *)
(*     raises CircuitError before the instruction is stored;               *)
(*   - a gate whose qubit arguments repeat raises CircuitError;            *)
(*   - a register bit is identified by (register name, register size,      *)
(*     index), and appending an instruction to a circuit that does not     *)
(*     hold its bits raises CircuitError;                                  *)
(*   - Statevector.from_instruction raises on an instruction that has      *)
(*     neither a matrix nor a definition (measure, an opaque gate).        *)
(* Python's None is the empty sequence, a present value x is <<x>>.        *)
(***************************************************************************)
EXTENDS Integers, Sequences, FiniteSets, TLC

VARIABLES circuit, state_history, current_step, last_call,
          simulation_results, session_current_step

(* The analyzer's fields (circuit, state_history, current_step), the       *)
(* Streamlit session's st.session_state.simulation_results and             *)
(* st.session_state.current_step, and the call in progress.                *)
session == <<simulation_results, session_current_step>>

vars == <<circuit, state_history, current_step, last_call,
          simulation_results, session_current_step>>

-----------------------------------------------------------------------------
(* Bounds of the model *)

MaxQubits == 2
MaxOps == 2
MaxStmts == 2

(* Program constants *)

DefaultShots == 1000

-----------------------------------------------------------------------------
(* Values *)

None == <<>>
Some(x) == <<x>>

RECURSIVE Pow2(_)
Pow2(n) == IF n = 0 THEN 1 ELSE 2 * Pow2(n - 1)

RECURSIVE Log2Int(_)
Log2Int(x) == IF x <= 1 THEN 0 ELSE 1 + Log2Int(x \div 2)

Max2(a, b) == IF a >= b THEN a ELSE b

(* A register qubit: Qiskit compares and hashes it by its register's name  *)
(* and size and its index in the register.                                 *)
Qubit(reg, size, idx) == [reg |-> reg, size |-> size, index |-> idx]

(* circuit.qubits of a circuit with one quantum register *)
CircuitQubits(c) == [i \in 1..c.num_qubits |-> Qubit(c.qreg, c.num_qubits, i - 1)]

(* QuantumCircuit(num_qubits, num_clbits): registers 'q' and 'c'; a        *)
(* negative size raises CircuitError.                                      *)
QuantumCircuit(n, m) ==
    IF n < 0 \/ m < 0 THEN None
    ELSE Some([qreg |-> "q", num_qubits |-> n, num_clbits |-> m, data |-> <<>>])

Instruction(name, qubits, clbits, params) ==
    [name |-> name, qubits |-> qubits, clbits |-> clbits, params |-> params]

-----------------------------------------------------------------------------
(* Gate catalogue of add_gate *)

SingleQubitGates == {"h", "x", "y", "z", "s", "sdg", "t", "tdg"}
RotationGates == {"rx", "ry", "rz"}
TwoQubitGates == {"cx", "cy", "cz", "swap"}

(* str.lower() on the gate names the model feeds in *)
Lower(g) ==
    CASE g = "H" -> "h"
      [] g = "CX" -> "cx"
      [] OTHER -> g

(* Faulty variant of QbitArgumentConversion: the specifier is taken as the *)
(* index without looking it up in circuit.qubits.                         *)
QbitArgumentConversionUnchecked(c, spec) ==
    Some(Qubit(c.qreg, c.num_qubits, spec))

(* Resolution of an integer qubit specifier against circuit.qubits:        *)
(* bit_sequence[specifier], IndexError turned into CircuitError.           *)
QbitArgumentConversion(c, spec) ==
    IF -c.num_qubits <= spec /\ spec < c.num_qubits
    THEN Some(CircuitQubits(c)[((spec + c.num_qubits) % c.num_qubits) + 1])
    ELSE None

(* Resolution of an integer classical-bit specifier *)
CbitArgumentConversion(c, spec) ==
    IF -c.num_clbits <= spec /\ spec < c.num_clbits
    THEN Some((spec + c.num_clbits) % c.num_clbits)
    ELSE None

(* Faulty variant of CircuitAppend: repeated qubit arguments are accepted. *)
CircuitAppendNoDuplicateCheck(c, name, specs, params) ==
    LET conv == [i \in 1..Len(specs) |-> QbitArgumentConversion(c, specs[i])]
    IN  IF \E i \in 1..Len(specs) : conv[i] = None THEN None
        ELSE Some([c EXCEPT !.data =
                      Append(@, Instruction(name, [i \in 1..Len(specs) |-> conv[i][1]],
                                            <<>>, params))])

(* QuantumCircuit.append of a gate on integer specifiers: every specifier  *)
(* is resolved, duplicate qubit arguments are refused, and only then is    *)
(* the instruction stored.  None when CircuitError is raised.              *)
CircuitAppend(c, name, specs, params) ==
    LET conv == [i \in 1..Len(specs) |-> QbitArgumentConversion(c, specs[i])]
    IN  IF \E i \in 1..Len(specs) : conv[i] = None THEN None
        ELSE LET qs == [i \in 1..Len(specs) |-> conv[i][1]]
             IN  IF \E i, j \in 1..Len(qs) : i < j /\ qs[i] = qs[j] THEN None
                 ELSE Some([c EXCEPT !.data =
                                Append(@, Instruction(name, qs, <<>>, params))])

(* The body of add_gate once a circuit is set: the if/elif chain on the    *)
(* lower-cased name, inside try/except.  ok is the return value.           *)
AddGateTo(c, gate_name, qubit, target_qubit, angle) ==
    LET g == Lower(gate_name)
        done ==
          IF g \in SingleQubitGates
            THEN Some(CircuitAppend(c, g, <<qubit>>, <<>>))
          ELSE IF g \in RotationGates /\ angle # None
            THEN Some(CircuitAppend(c, g, <<qubit>>, angle))
          ELSE IF g \in TwoQubitGates /\ target_qubit # None
            THEN Some(CircuitAppend(c, g, <<qubit, target_qubit[1]>>, <<>>))
          ELSE None
    IN  IF done = None \/ done[1] = None
        THEN [ok |-> FALSE, circuit |-> c]
        ELSE [ok |-> TRUE, circuit |-> done[1][1]]

-----------------------------------------------------------------------------
(* OpenQASM text.  A text is its register declarations and its statement   *)
(* lines; the header declares the opaque gate mygate.  from_qasm_str reads *)
(* the statements in order and raises on the first one it cannot accept:   *)
(* a line that is not a statement, a qubit index outside the quantum       *)
(* register, a classical index outside the classical register, a cx on    *)
(* one qubit twice.                                                        *)

QasmStmt(name, q, c) == [name |-> name, q |-> q, c |-> c]

(* cx q[control], q[target]; *)
QasmCx(control, target) == [name |-> "cx", q |-> control, c |-> 0, t |-> target]

QasmNames == {"h", "mygate", "measure", "reset", "cx"}

QasmGarbage == QasmStmt("@garbage", 0, 0)

RECURSIVE ParseStmts(_, _, _)
ParseStmts(c, body, i) ==
    IF i > Len(body) THEN Some(c)
    ELSE LET s == body[i]
         IN  IF s.name \notin QasmNames THEN None
             ELSE IF s.q < 0 \/ s.q >= c.num_qubits THEN None
             ELSE IF s.name = "measure" /\ (s.c < 0 \/ s.c >= c.num_clbits) THEN None
             ELSE IF s.name = "cx" /\ (s.t < 0 \/ s.t >= c.num_qubits \/ s.t = s.q)
               THEN None
             ELSE ParseStmts(
                    [c EXCEPT !.data = Append(@,
                        Instruction(s.name,
                                    IF s.name = "cx"
                                    THEN <<CircuitQubits(c)[s.q + 1],
                                           CircuitQubits(c)[s.t + 1]>>
                                    ELSE <<CircuitQubits(c)[s.q + 1]>>,
                                    IF s.name = "measure" THEN <<s.c>> ELSE <<>>,
                                    <<>>))],
                    body, i + 1)

(* QuantumCircuit.from_qasm_str: the parsed circuit, or None for a raise *)
FromQasmStr(text) ==
    ParseStmts([qreg |-> text.qreg, num_qubits |-> text.nq,
                num_clbits |-> text.nc, data |-> <<>>], text.body, 1)

-----------------------------------------------------------------------------
(* Amplitudes.  A complex number is <<re, im>> with integer parts; a state  *)
(* vector is the amplitudes amps[1..2^n] divided by sqrt(norm2).  The      *)
(* amplitude of basis state i (0-based) is amps[i + 1], and qubit q is bit *)
(* q of i (Qiskit's little-endian order).                                  *)

CAdd(x, y) == <<x[1] + y[1], x[2] + y[2]>>
CSub(x, y) == <<x[1] - y[1], x[2] - y[2]>>
CMul(x, y) == <<x[1] * y[1] - x[2] * y[2], x[1] * y[2] + x[2] * y[1]>>
CConj(x) == <<x[1], -x[2]>>
CZero == <<0, 0>>
COne == <<1, 0>>
CMinusI == <<0, -1>>
CAbs2(x) == x[1] * x[1] + x[2] * x[2]

RECURSIVE CSum(_, _)
CSum(f, S) ==
    IF S = {} THEN CZero
    ELSE LET x == CHOOSE y \in S : TRUE IN CAdd(f[x], CSum(f, S \ {x}))

RECURSIVE NatSum(_, _)
NatSum(f, S) ==
    IF S = {} THEN 0
    ELSE LET x == CHOOSE y \in S : TRUE IN f[x] + NatSum(f, S \ {x})

Bit(i, q) == (i \div Pow2(q)) % 2
WithBit(i, q, b) == i - Bit(i, q) * Pow2(q) + b * Pow2(q)

(* The same vector with the common factor 2 taken out of amps and norm2 *)
RECURSIVE Reduced(_)
Reduced(st) ==
    IF /\ st.norm2 % 4 = 0
       /\ \A i \in 1..Len(st.amps) : st.amps[i][1] % 2 = 0 /\ st.amps[i][2] % 2 = 0
    THEN Reduced([amps |-> [i \in 1..Len(st.amps) |->
                               <<st.amps[i][1] \div 2, st.amps[i][2] \div 2>>],
                  norm2 |-> st.norm2 \div 4])
    ELSE st

(* |0...0> on n qubits *)
ZeroState(n) ==
    [amps |-> [i \in 1..Pow2(n) |-> IF i = 1 THEN COne ELSE CZero], norm2 |-> 1]

(* H = [[1, 1], [1, -1]] / sqrt(2) on qubit q *)
ApplyH(st, q) ==
    Reduced([amps |-> [k \in 1..Len(st.amps) |->
                 LET i == k - 1
                     a0 == st.amps[WithBit(i, q, 0) + 1]
                     a1 == st.amps[WithBit(i, q, 1) + 1]
                 IN  IF Bit(i, q) = 0 THEN CAdd(a0, a1) ELSE CSub(a0, a1)],
             norm2 |-> 2 * st.norm2])

(* RX(pi/2) = [[1, -i], [-i, 1]] / sqrt(2) on qubit q *)
ApplyRxHalfPi(st, q) ==
    Reduced([amps |-> [k \in 1..Len(st.amps) |->
                 LET i == k - 1
                     a0 == st.amps[WithBit(i, q, 0) + 1]
                     a1 == st.amps[WithBit(i, q, 1) + 1]
                 IN  IF Bit(i, q) = 0 THEN CAdd(a0, CMul(CMinusI, a1))
                     ELSE CAdd(CMul(CMinusI, a0), a1)],
             norm2 |-> 2 * st.norm2])

(* CX: the target bit is flipped where the control bit is 1 *)
ApplyCX(st, control, target) ==
    [st EXCEPT !.amps = [k \in 1..Len(st.amps) |->
        LET i == k - 1
        IN  IF Bit(i, control) = 1
            THEN st.amps[WithBit(i, target, 1 - Bit(i, target)) + 1]
            ELSE st.amps[k]]]

(* Weight of the outcome b of qubit q: norm2 times its probability *)
OutcomeWeight(st, q, b) ==
    NatSum([k \in 1..Len(st.amps) |-> CAbs2(st.amps[k])],
           {k \in 1..Len(st.amps) : Bit(k - 1, q) = b})

(* Statevector.reset(qargs = [q]): one measurement outcome of the qubit is *)
(* sampled with the generator, the state is projected on it and            *)
(* renormalized, and the qubit is moved to 0.  drawn is the generator's    *)
(* draw; an outcome of probability 0 is never sampled.                     *)
ApplyReset(st, q, drawn) ==
    LET outcome == IF OutcomeWeight(st, q, drawn) > 0 THEN drawn ELSE 1 - drawn
    IN  Reduced([amps |-> [k \in 1..Len(st.amps) |->
                     IF Bit(k - 1, q) = 0
                     THEN st.amps[WithBit(k - 1, q, outcome) + 1]
                     ELSE CZero],
                 norm2 |-> OutcomeWeight(st, q, outcome)])

(* One instruction applied to the state.  Only the gates the inputs below  *)
(* feed in have their matrix written out; any other leaves no amplitudes.  *)
Evolve(st, inst, drawn) ==
    CASE inst.name = "h" -> ApplyH(st, inst.qubits[1].index)
      [] inst.name = "rx" /\ inst.params = Some("half_pi")
            -> ApplyRxHalfPi(st, inst.qubits[1].index)
      [] inst.name = "cx" -> ApplyCX(st, inst.qubits[1].index, inst.qubits[2].index)
      [] inst.name = "reset" -> ApplyReset(st, inst.qubits[1].index, drawn)
      [] OTHER -> [amps |-> <<>>, norm2 |-> 0]

RECURSIVE EvolveAll(_, _, _, _)
EvolveAll(st, data, i, drawn) ==
    IF i > Len(data) THEN st
    ELSE EvolveAll(Evolve(st, data[i], drawn), data, i + 1, drawn)

-----------------------------------------------------------------------------
(* Statevector engine.  A statevector is its amplitudes (data, norm2)      *)
(* together with the instruction sequence that prepared it.                *)

(* Instructions with neither a matrix nor a definition *)
NoMatrix == {"measure", "mygate"}

(* Instructions the engine raises on: those of NoMatrix, and a rotation by *)
(* an infinite angle (the gate's matrix takes math.cos of it).             *)
EngineRaisesOn(inst) ==
    \/ inst.name \in NoMatrix
    \/ inst.name \in RotationGates /\ inst.params = Some("inf")

(* Statevector.from_instruction(circuit): None for a raise.  drawn is what *)
(* the generator draws in this run.                                        *)
StatevectorFromInstruction(c, drawn) ==
    IF \E i \in 1..Len(c.data) : EngineRaisesOn(c.data[i]) THEN None
    ELSE LET st == EvolveAll(ZeroState(c.num_qubits), c.data, 1, drawn)
         IN  Some([num_qubits |-> c.num_qubits, prepared_by |-> c.data,
                   data |-> st.amps, norm2 |-> st.norm2])

(* backend.run(circuit, shots=1).result().get_statevector(): the circuit   *)
(* holds no save_statevector instruction, so the result carries no         *)
(* statevector and get_statevector raises ("No statevector for ...").      *)
BackendGetStatevector(c) == None

(* The try / except / fallback chain around the engine: the statevector,   *)
(* or None when both attempts raise.                                       *)
StatevectorOrFallback(c, drawn) ==
    LET statevector == StatevectorFromInstruction(c, drawn)
    IN  IF statevector # None THEN statevector ELSE BackendGetStatevector(c)

(* backend.run(circuit, shots).result().get_counts(): None for a raise     *)
(* (the simulator has no implementation of the opaque gate; a run of no    *)
(* shot has no counts to return).                                          *)
BackendGetCounts(c, shots) ==
    IF \E i \in 1..Len(c.data) : c.data[i].name = "mygate" THEN None
    ELSE IF shots < 1 THEN None
    ELSE Some([sampled_from |-> c.data, shots |-> shots])

(* len(statevector) *)
SvLen(sv) == Len(sv.data)

(* np.outer(statevector, statevector.conj()) *)
Outer(amps) ==
    [r \in 1..Len(amps) |-> [c \in 1..Len(amps) |-> CMul(amps[r], CConj(amps[c]))]]

(* The basis index whose bits at the qubits of where are the bits of x *)
RECURSIVE Scatter(_, _, _)
Scatter(x, where, j) ==
    IF j > Len(where) THEN 0
    ELSE Bit(x, j - 1) * Pow2(where[j]) + Scatter(x, where, j + 1)

(* The sum over the traced-out basis states 1..t of the entries of rho at  *)
(* (row + off[u], col + off[u]), rows and columns counted from 0           *)
RECURSIVE TraceSum(_, _, _, _, _)
TraceSum(rho, row, col, off, t) ==
    IF t < 1 THEN CZero
    ELSE CAdd(rho[row + off[t] + 1][col + off[t] + 1],
              TraceSum(rho, row, col, off, t - 1))

(* qiskit.quantum_info.partial_trace(rho, qargs) on n qubits: the matrix   *)
(* over the qubits not in qargs, in increasing order, with the qubits of   *)
(* qargs summed over; qubit q is bit q of a basis index.  at[x] is the     *)
(* basis index of the kept qubits' assignment x, off[t] that of the traced *)
(* qubits' assignment t.                                                   *)
QiskitPartialTrace(rho, n, qargs) ==
    LET kept == SelectSeq([i \in 1..n |-> i - 1],
                          LAMBDA q : \A j \in 1..Len(qargs) : qargs[j] # q)
        dim == Pow2(Len(kept))
        traced == Pow2(Len(qargs))
        at == SubSeq([x \in 1..dim |-> Scatter(x - 1, kept, 1)], 1, dim)
        off == SubSeq([t \in 1..traced |-> Scatter(t - 1, qargs, 1)], 1, traced)
    IN  [x \in 1..dim |-> [y \in 1..dim |->
            TraceSum(rho, at[x], at[y], off, traced)]]

(* Faulty variant of QubitsToTrace: the qubit itself is traced out *)
QubitsToTraceIsTheQubit(num_qubits, qubit) == <<qubit>>

(* qubits_to_trace = list(range(num_qubits)); qubits_to_trace.remove(qubit) *)
QubitsToTrace(num_qubits, qubit) ==
    SelectSeq([i \in 1..num_qubits |-> i - 1], LAMBDA q : q # qubit)

(* _calculate_partial_traces: for each qubit of the vector the reduced     *)
(* matrix rho (over the divisor den) of that qubit; keep names the qubit.  *)
CalculatePartialTraces(sv) ==
    LET num_qubits == Log2Int(SvLen(sv))
    IN  [k \in 1..num_qubits |->
            LET qubit == k - 1
                rho == Outer(sv.data)
                qubits_to_trace == QubitsToTrace(num_qubits, qubit)
            IN  [keep |-> qubit,
                 rho |-> IF qubits_to_trace # <<>>
                         THEN QiskitPartialTrace(rho, num_qubits, qubits_to_trace)
                         ELSE rho,
                 den |-> sv.norm2]]

(* QuantumCircuit.append(instruction, qargs, cargs) with bit objects:      *)
(* every bit must be a bit of the circuit.  None for a raise.              *)
AppendInstruction(c, inst) ==
    IF \A i \in 1..Len(inst.qubits) :
          \E j \in 1..c.num_qubits : CircuitQubits(c)[j] = inst.qubits[i]
    THEN Some([c EXCEPT !.data = Append(@, inst)])
    ELSE None

HasMeasurements(c) == \E i \in 1..Len(c.data) : c.data[i].name = "measure"

NonMeasure(data) == SelectSeq(data, LAMBDA inst : inst.name # "measure")

-----------------------------------------------------------------------------
(* circuit.depth() and circuit.count_ops() *)

BitsOf(inst) ==
    {<<"q", inst.qubits[i]>> : i \in 1..Len(inst.qubits)}
      \cup {<<"c", inst.clbits[i]>> : i \in 1..Len(inst.clbits)}

RECURSIVE SetMax(_)
SetMax(S) ==
    IF S = {} THEN 0
    ELSE LET x == CHOOSE y \in S : TRUE IN Max2(x, SetMax(S \ {x}))

(* The level each instruction lands on: one more than the deepest level    *)
(* among the earlier instructions sharing a bit with it.                   *)
RECURSIVE LevelOf(_, _)
LevelOf(data, i) ==
    1 + SetMax({LevelOf(data, j) : j \in {k \in 1..(i - 1) :
                                          BitsOf(data[k]) \cap BitsOf(data[i]) # {}}})

Depth(c) == SetMax({LevelOf(c.data, i) : i \in 1..Len(c.data)})

CountOps(c) ==
    [n \in {c.data[i].name : i \in 1..Len(c.data)} |->
        Cardinality({i \in 1..Len(c.data) : c.data[i].name = n})]

-----------------------------------------------------------------------------
(* _build_state_history on a set circuit: the history it leaves in         *)
(* self.state_history and whether it raised.  temp is the accumulator      *)
(* circuit QuantumCircuit(num_qubits).                                     *)

StepRecord(hist, inst, sv) ==
    [step |-> Len(hist),
     gate |-> inst.name,
     qubits |-> [i \in 1..Len(inst.qubits) |-> inst.qubits[i].index],
     statevector |-> sv,
     partial_traces |-> CalculatePartialTraces(sv)]

(* The warning printed when a step cannot be built *)
StepWarning(hist) == [step |-> Len(hist)]

RECURSIVE BuildLoop(_, _, _, _, _)

(* Faulty variant of BuildLoop: the first step the engine cannot produce   *)
(* ends the loop.                                                          *)
BuildLoopStopsAtFailure(data, i, temp, hist, rng) ==
    IF i > Len(data)
    THEN [history |-> hist, raised |-> FALSE, accumulator |-> temp,
          visited |-> Len(data), warnings |-> <<>>]
    ELSE IF data[i].name = "measure" THEN BuildLoop(data, i + 1, temp, hist, rng)
    ELSE LET app == AppendInstruction(temp, data[i])
         IN  IF app = None
             THEN [history |-> hist, raised |-> TRUE, accumulator |-> temp,
                   visited |-> i, warnings |-> <<>>]
             ELSE LET sv == StatevectorOrFallback(app[1], rng[i])
                  IN  IF sv = None
                      THEN [history |-> hist, raised |-> FALSE,
                            accumulator |-> app[1], visited |-> i,
                            warnings |-> <<StepWarning(hist)>>]
                      ELSE BuildLoop(data, i + 1, app[1],
                                     Append(hist, StepRecord(hist, data[i], sv[1])),
                                     rng)

(* The loop of _build_state_history from operation i on: the history, the  *)
(* accumulator circuit and the warnings it ends with, how many operations  *)
(* of the circuit it got to, and whether it raised.  rng[i] is what the    *)
(* generator draws in the engine run of operation i.                       *)
BuildLoop(data, i, temp, hist, rng) ==
    IF i > Len(data)
    THEN [history |-> hist, raised |-> FALSE, accumulator |-> temp,
          visited |-> Len(data), warnings |-> <<>>]
    ELSE IF data[i].name = "measure" THEN BuildLoop(data, i + 1, temp, hist, rng)
    ELSE LET app == AppendInstruction(temp, data[i])
         IN  IF app = None
             THEN [history |-> hist, raised |-> TRUE, accumulator |-> temp,
                   visited |-> i, warnings |-> <<>>]
             ELSE LET sv == StatevectorOrFallback(app[1], rng[i])
                  IN  IF sv = None
                      THEN LET r == BuildLoop(data, i + 1, app[1], hist, rng)
                           IN  [r EXCEPT !.warnings = <<StepWarning(hist)>> \o @]
                      ELSE BuildLoop(data, i + 1, app[1],
                                     Append(hist, StepRecord(hist, data[i], sv[1])),
                                     rng)

BuildStateHistoryOf(c, rng) ==
    BuildLoop(c.data, 1, QuantumCircuit(c.num_qubits, 0)[1], <<>>, rng)

-----------------------------------------------------------------------------
(* simulate_circuit on a set circuit: the returned record and the state    *)
(* history the call leaves behind.  rng[Len(c.data) + 1] is what the       *)
(* generator draws in the engine run on the whole circuit, rng[i] in the   *)
(* history's run of operation i.                                           *)

EmptyResult == [kind |-> "empty"]

(* Faulty variant of ErrorResult: the exception leaves simulate_circuit    *)
(* instead of being turned into a record.                                  *)
ExceptionEscapes(msg) == [kind |-> "raised", exception |-> msg]

(* The record the outer handler of simulate_circuit returns *)
ErrorResult(msg) == [kind |-> "error", error |-> msg]

(* The measurement-free copy: None when an append raises *)
RECURSIVE CopyNoMeasure(_, _, _)
CopyNoMeasure(data, i, copy) ==
    IF i > Len(data) THEN Some(copy)
    ELSE IF data[i].name = "measure" THEN CopyNoMeasure(data, i + 1, copy)
    ELSE LET app == AppendInstruction(copy, data[i])
         IN  IF app = None THEN None ELSE CopyNoMeasure(data, i + 1, app[1])

SimulateCircuitOf(c, hist, shots, rng) ==
    LET has_measurements == HasMeasurements(c)
        copy == CopyNoMeasure(c.data, 1, QuantumCircuit(c.num_qubits, 0)[1])
    IN  IF has_measurements /\ copy = None
        THEN [ret |-> ErrorResult("Simulation failed: Bit is not in the circuit"),
              history |-> hist]
        ELSE
        LET statevector ==
              IF has_measurements
              THEN IF Len(copy[1].data) > 0
                   THEN StatevectorOrFallback(copy[1], rng[Len(c.data) + 1])
                   ELSE None
              ELSE StatevectorOrFallback(c, rng[Len(c.data) + 1])
            got == IF has_measurements THEN BackendGetCounts(c, shots) ELSE None
            counts == got
            partial_traces ==
              IF statevector # None /\ SvLen(statevector[1]) > 0
              THEN CalculatePartialTraces(statevector[1])
              ELSE <<>>
            built == BuildStateHistoryOf(c, rng)
        IN  IF built.raised
            THEN [ret |-> ErrorResult("Simulation failed: Bit is not in the circuit"),
                  history |-> built.history]
            ELSE [ret |-> [kind |-> "result",
                           statevector |-> statevector,
                           counts |-> counts,
                           partial_traces |-> partial_traces,
                           circuit_depth |-> Depth(c),
                           num_qubits |-> c.num_qubits,
                           num_gates |-> CountOps(c),
                           has_measurements |-> has_measurements],
                  history |-> built.history]

-----------------------------------------------------------------------------
(* Purity, Bloch coordinates and the state-type labels.  A real number is  *)
(* a fraction [num, den] with den > 0; NaN is 0/0.                         *)

Frac(n, d) == [num |-> n, den |-> d]
NaN == Frac(0, 0)

(* x > a/b as Python evaluates it: False for NaN *)
Greater(x, a, b) == x.den # 0 /\ x.num * b > a * x.den

(* dm @ other for square matrices of the same size *)
MatMul(a, b) ==
    [i \in 1..Len(a) |-> [j \in 1..Len(a) |->
        CSum([k \in 1..Len(a) |-> CMul(a[i][k], b[k][j])], 1..Len(a))]]

(* np.trace *)
Trace(m) == CSum([k \in 1..Len(m) |-> m[k][k]], 1..Len(m))

(* Faulty variant of GetPurity: the trace of the matrix, not of its square *)
GetPurityIsTrace(m) == Frac(Trace(m.rho)[1], m.den)

(* get_purity(density_matrix): np.real(np.trace(dm @ dm)), for the matrix  *)
(* m.rho / m.den                                                           *)
GetPurity(m) == Frac(Trace(MatMul(m.rho, m.rho))[1], m.den * m.den)

SigmaX == <<<<CZero, COne>>, <<COne, CZero>>>>
SigmaY == <<<<CZero, CMinusI>>, <<<<0, 1>>, CZero>>>>
SigmaZ == <<<<COne, CZero>>, <<CZero, <<-1, 0>>>>>>

(* get_bloch_coordinates(density_matrix): the real parts of the traces of  *)
(* dm @ sigma_x, dm @ sigma_y, dm @ sigma_z                                *)
GetBlochCoordinates(m) ==
    [x |-> Frac(Trace(MatMul(m.rho, SigmaX))[1], m.den),
     y |-> Frac(Trace(MatMul(m.rho, SigmaY))[1], m.den),
     z |-> Frac(Trace(MatMul(m.rho, SigmaZ))[1], m.den)]

(* The label the visualization page shows next to a qubit *)
PageLabel(purity) ==
    IF Greater(purity, 99, 100) THEN "Pure State"
    ELSE IF Greater(purity, 1, 2) THEN "Mixed State"
    ELSE "Highly Mixed State"

(* The 'State Type' column of create_qubit_analysis_table *)
TableLabel(purity) ==
    IF Greater(purity, 99, 100) THEN "Pure"
    ELSE IF Greater(purity, 1, 2) THEN "Mixed"
    ELSE "Highly Mixed"

-----------------------------------------------------------------------------
(* Inputs *)

QubitArgs == (-1)..MaxQubits
OptQubitArgs == {None} \cup {Some(q) : q \in QubitArgs}
Angles == {"half_pi", "inf"}
OptAngles == {None} \cup {Some(a) : a \in Angles}
QubitCounts == (-1)..MaxQubits
ClbitCounts == {0, 1}
ShotsInputs == {DefaultShots}

GateCall(g, q, t, a) == [gate_name |-> g, qubit |-> q, target_qubit |-> t, angle |-> a]

(* The add_gate calls fed in: a fixed gate on every qubit argument with    *)
(* and without an angle, odd names, a rotation with every angle, a         *)
(* two-qubit gate on every pair of arguments.                              *)
AddGateCalls ==
    {GateCall("h", q, None, a) : q \in QubitArgs, a \in {None, Some("half_pi")}}
      \cup {GateCall(g, 0, None, None) : g \in {"H", "bogus"}}
      \cup {GateCall("rx", q, None, a) : q \in {0, MaxQubits}, a \in OptAngles}
      \cup {GateCall("cx", q, t, None) : q \in QubitArgs, t \in OptQubitArgs}

QasmStmts ==
    {QasmStmt("h", 0, 0), QasmStmt("mygate", 0, 0), QasmStmt("measure", 0, 0)}

SeqsUpTo(S, n) == UNION {[1..k -> S] : k \in 0..n}

QasmLayouts == {<<"q", MaxQubits, 1>>, <<"a", 1, 1>>}

(* Well-formed bodies, and bodies whose last statement does not parse *)
QasmBodies ==
    SeqsUpTo(QasmStmts, MaxStmts)
      \cup {Append(b, QasmGarbage) : b \in SeqsUpTo(QasmStmts, MaxStmts - 1)}

(* h q[0]; cx q[0], q[1]; reset q[0]; -- a Bell pair, then one half reset  *)
BellResetText ==
    [qreg |-> "q", nq |-> 2, nc |-> 1,
     body |-> <<QasmStmt("h", 0, 0), QasmCx(0, 1), QasmStmt("reset", 0, 0)>>]

QasmTexts ==
    {[qreg |-> l[1], nq |-> l[2], nc |-> l[3], body |-> b] :
        l \in QasmLayouts, b \in QasmBodies}
      \cup {BellResetText}

-----------------------------------------------------------------------------
(* What the random generator can draw during one call on the held circuit: *)
(* one bit per engine run, 0 wherever the run samples nothing (its         *)
(* instructions hold no reset).  Position i is the history's run of        *)
(* operation i, the last position the run on the whole circuit.            *)
GeneratorDraws(circ) ==
    IF circ = None THEN {<<0>>}
    ELSE LET data == circ[1].data
         IN  IF \A j \in 1..Len(data) : data[j].name # "reset"
             THEN {[i \in 1..(Len(data) + 1) |-> 0]}
             ELSE {rng \in [1..(Len(data) + 1) -> {0, 1}] :
                     \A i \in 1..(Len(data) + 1) :
                         rng[i] = 1 =>
                             \E j \in 1..Len(data) :
                                 j <= i /\ data[j].name = "reset"}

-----------------------------------------------------------------------------
(* Operations.  Every operation is a blocking call: it runs to completion, *)
(* last_call holds what was called and what it returned until the caller   *)
(* has taken the result, and only then is the next call made.              *)

Idle == [op |-> "idle"]

(* What add_gate and load_openqasm print or log about an exception they    *)
(* catch: their handlers only return False.                                *)
NothingLogged == <<>>

Init ==
    /\ circuit = None
    /\ state_history = <<>>
    /\ current_step = 0
    /\ last_call = Idle
    /\ simulation_results = EmptyResult
    /\ session_current_step = 0

(* create_circuit(num_qubits, num_classical_bits = 0) *)
CreateCircuit(n, m) ==
    LET mm == IF m = 0 THEN n ELSE m
        made == QuantumCircuit(n, mm)
    IN  /\ last_call = Idle
        /\ UNCHANGED session
        /\ IF made = None
           THEN /\ last_call' = [op |-> "create_circuit", num_qubits |-> n,
                                 num_classical_bits |-> m, raised |-> TRUE]
                /\ UNCHANGED <<circuit, state_history, current_step>>
           ELSE /\ circuit' = made
                /\ state_history' = <<>>
                /\ current_step' = 0
                /\ last_call' = [op |-> "create_circuit", num_qubits |-> n,
                                 num_classical_bits |-> m, raised |-> FALSE]

(* add_gate(gate_name, qubit, target_qubit = None, angle = None) *)
AddGate(call) ==
    LET r == IF circuit = None
             THEN [ok |-> FALSE, circuit |-> None]
             ELSE LET a == AddGateTo(circuit[1], call.gate_name, call.qubit,
                                     call.target_qubit, call.angle)
                  IN  [ok |-> a.ok, circuit |-> Some(a.circuit)]
    IN  /\ last_call = Idle
        /\ UNCHANGED session
        /\ circuit # None => Len(circuit[1].data) < MaxOps
        /\ circuit' = r.circuit
        /\ last_call' = [op |-> "add_gate", args |-> call, ret |-> r.ok,
                         logged |-> NothingLogged]
        /\ UNCHANGED <<state_history, current_step>>

(* Faulty variant of LoadOpenqasm: the derived state is cleared before the *)
(* text is parsed, so a failed load loses it.                              *)
LoadOpenqasmClearsFirst(text) ==
    LET parsed == FromQasmStr(text)
    IN  /\ last_call = Idle
        /\ UNCHANGED session
        /\ state_history' = <<>>
        /\ current_step' = 0
        /\ circuit' = IF parsed = None THEN circuit ELSE parsed
        /\ last_call' = [op |-> "load_openqasm", text |-> text, ret |-> parsed # None,
                         logged |-> NothingLogged]

(* load_openqasm(qasm_string) *)
LoadOpenqasm(text) ==
    LET parsed == FromQasmStr(text)
    IN  /\ last_call = Idle
        /\ UNCHANGED session
        /\ IF parsed = None
           THEN /\ last_call' = [op |-> "load_openqasm", text |-> text, ret |-> FALSE,
                                 logged |-> NothingLogged]
                /\ UNCHANGED <<circuit, state_history, current_step>>
           ELSE /\ circuit' = parsed
                /\ state_history' = <<>>
                /\ current_step' = 0
                /\ last_call' = [op |-> "load_openqasm", text |-> text, ret |-> TRUE,
                                 logged |-> NothingLogged]

(* Faulty variant of SimulateCircuit: the measurements are stripped from   *)
(* the session's circuit instead of a copy of it.                          *)
SimulateCircuitStripsInPlace(shots, rng) ==
    /\ last_call = Idle
    /\ UNCHANGED session
    /\ \E r \in {IF circuit = None
                  THEN [ret |-> EmptyResult, history |-> state_history]
                  ELSE SimulateCircuitOf(circuit[1], state_history, shots, rng)} :
          /\ state_history' = r.history
          /\ last_call' = [op |-> "simulate_circuit", shots |-> shots,
                           ret |-> r.ret]
    /\ circuit' = IF circuit = None THEN circuit
                  ELSE Some([circuit[1] EXCEPT !.data = NonMeasure(@)])
    /\ UNCHANGED current_step

(* simulate_circuit(shots = 1000) *)
SimulateCircuit(shots, rng) ==
    /\ last_call = Idle
    /\ UNCHANGED session
    /\ \E r \in {IF circuit = None
                  THEN [ret |-> EmptyResult, history |-> state_history]
                  ELSE SimulateCircuitOf(circuit[1], state_history, shots, rng)} :
          /\ state_history' = r.history
          /\ last_call' = [op |-> "simulate_circuit", shots |-> shots,
                           ret |-> r.ret]
    /\ UNCHANGED <<circuit, current_step>>

(* _build_state_history(), as the step-by-step page calls it *)
BuildStateHistory(rng) ==
    /\ last_call = Idle
    /\ UNCHANGED session
    /\ \E r \in {IF circuit = None
                  THEN [history |-> state_history, raised |-> FALSE,
                        accumulator |-> None, visited |-> 0, warnings |-> <<>>]
                  ELSE [BuildStateHistoryOf(circuit[1], rng)
                          EXCEPT !.accumulator = Some(@)]} :
          /\ state_history' = r.history
          /\ last_call' = [op |-> "_build_state_history", raised |-> r.raised,
                           accumulator |-> r.accumulator, visited |-> r.visited,
                           warnings |-> r.warnings]
    /\ UNCHANGED <<circuit, current_step>>

(* Faulty variant of ResetCircuit: the history is left in place *)
ResetCircuitKeepsHistory ==
    /\ last_call = Idle
    /\ UNCHANGED session
    /\ circuit' = None
    /\ current_step' = 0
    /\ last_call' = [op |-> "reset_circuit"]
    /\ UNCHANGED state_history

(* reset_circuit() *)
ResetCircuit ==
    /\ last_call = Idle
    /\ UNCHANGED session
    /\ circuit' = None
    /\ state_history' = <<>>
    /\ current_step' = 0
    /\ last_call' = [op |-> "reset_circuit"]

(* The builder's Add Measurement button: circuit.measure(i, i) for every   *)
(* qubit i in turn; a classical index the circuit does not have raises     *)
(* out of the loop, after the earlier measurements were appended.          *)
RECURSIVE MeasureAll(_, _)
MeasureAll(c, i) ==
    IF i >= c.num_qubits THEN [circuit |-> c, raised |-> FALSE]
    ELSE IF CbitArgumentConversion(c, i) = None THEN [circuit |-> c, raised |-> TRUE]
    ELSE MeasureAll(
           [c EXCEPT !.data = Append(@,
               Instruction("measure", <<QbitArgumentConversion(c, i)[1]>>,
                           CbitArgumentConversion(c, i), <<>>))],
           i + 1)

AddMeasurement ==
    /\ last_call = Idle
    /\ UNCHANGED session
    /\ circuit # None
    /\ Len(circuit[1].data) + circuit[1].num_qubits <= MaxOps
    /\ LET r == MeasureAll(circuit[1], 0)
       IN  /\ circuit' = Some(r.circuit)
           /\ last_call' = [op |-> "add_measurement", raised |-> r.raised]
    /\ UNCHANGED <<state_history, current_step>>

(* The call has returned and the caller has taken its result *)
Return ==
    /\ last_call # Idle
    /\ UNCHANGED session
    /\ last_call' = Idle
    /\ UNCHANGED <<circuit, state_history, current_step>>

Next ==
    \/ \E n \in QubitCounts, m \in ClbitCounts : CreateCircuit(n, m)
    \/ \E call \in AddGateCalls : AddGate(call)
    \/ \E text \in QasmTexts : LoadOpenqasm(text)
    \/ \E shots \in ShotsInputs, rng \in GeneratorDraws(circuit) :
          SimulateCircuit(shots, rng)
    \/ \E rng \in GeneratorDraws(circuit) : BuildStateHistory(rng)
    \/ ResetCircuit
    \/ AddMeasurement
    \/ Return

Spec == Init /\ [][Next]_vars

-----------------------------------------------------------------------------
(* _calculate_partial_traces on its own, applied to statevector arrays of  *)
(* every length 2^n up to MaxQubits qubits, normalized or not.             *)

AmplitudeInputs == {CZero, COne, <<0, 1>>}
NormInputs == {1, 2}

StatevectorInputs ==
    {[data |-> d, norm2 |-> w] :
        d \in UNION {[1..Pow2(n) -> AmplitudeInputs] : n \in 0..MaxQubits},
        w \in NormInputs}

CalculatePartialTracesCall(statevector) ==
    /\ last_call = Idle
    /\ UNCHANGED session
    /\ last_call' = [op |-> "_calculate_partial_traces",
                     statevector |-> statevector,
                     ret |-> CalculatePartialTraces(statevector),
                     raised |-> FALSE]
    /\ UNCHANGED <<circuit, state_history, current_step>>

NextPartialTrace ==
    \/ \E statevector \in StatevectorInputs : CalculatePartialTracesCall(statevector)
    \/ Return

SpecPartialTrace == Init /\ [][NextPartialTrace]_vars

-----------------------------------------------------------------------------
(* Properties *)

AllGates == SingleQubitGates \cup RotationGates \cup TwoQubitGates

InRange(q, c) == 0 <= q /\ q < c.num_qubits

IsAppendOfOne(old, new) ==
    /\ Len(new.data) = Len(old.data) + 1
    /\ SubSeq(new.data, 1, Len(old.data)) = old.data
    /\ new.qreg = old.qreg
    /\ new.num_qubits = old.num_qubits
    /\ new.num_clbits = old.num_clbits

(* The calls the claim says add_gate must refuse *)
MustBeRefused(c, a) ==
    \/ c = None
    \/ Lower(a.gate_name) \notin AllGates
    \/ Lower(a.gate_name) \in TwoQubitGates /\ a.target_qubit = None
    \/ ~InRange(a.qubit, c[1])
    \/ /\ Lower(a.gate_name) \in TwoQubitGates
       /\ a.target_qubit # None
       /\ ~InRange(a.target_qubit[1], c[1])

(* C1: add_gate is atomic -- it returns True with exactly one operation    *)
(* appended at the end of the circuit, or False with the circuit,          *)
(* state_history and current_step unchanged -- and it returns False for an *)
(* unknown gate name, a two-qubit gate without a second qubit, a qubit     *)
(* index outside [0, N), and when no circuit is set.                       *)
C1_AddGateAtomicAndRefuses ==
    [][last_call'.op = "add_gate" =>
         /\ \/ /\ last_call'.ret = TRUE
               /\ circuit # None /\ circuit' # None
               /\ IsAppendOfOne(circuit[1], circuit'[1])
               /\ UNCHANGED <<state_history, current_step>>
            \/ /\ last_call'.ret = FALSE
               /\ UNCHANGED <<circuit, state_history, current_step>>
         /\ MustBeRefused(circuit, last_call'.args) => last_call'.ret = FALSE]_vars

(* Control and target name the same qubit: the same index, or two indices  *)
(* the circuit resolves to one qubit.                                      *)
SameQubit(c, q, t) ==
    \/ q = t
    \/ /\ QbitArgumentConversion(c, q) # None
       /\ QbitArgumentConversion(c, q) = QbitArgumentConversion(c, t)

(* C2: appending a two-qubit gate whose control and target are the same    *)
(* qubit returns False and leaves the operation list and the circuit depth *)
(* unchanged, for every qubit index and every prior circuit.               *)
C2_SameControlTargetRefused ==
    [][(/\ last_call'.op = "add_gate"
        /\ circuit # None
        /\ Lower(last_call'.args.gate_name) \in TwoQubitGates
        /\ last_call'.args.target_qubit # None
        /\ SameQubit(circuit[1], last_call'.args.qubit, last_call'.args.target_qubit[1]))
       => /\ last_call'.ret = FALSE
          /\ circuit' = circuit
          /\ Depth(circuit'[1]) = Depth(circuit[1])]_vars

(* A same-qubit two-qubit call was made on a circuit that already holds an *)
(* operation, and was refused.                                             *)
C2_Witness ==
    /\ last_call.op = "add_gate"
    /\ last_call.args.gate_name = "cx"
    /\ last_call.args.target_qubit = Some(last_call.args.qubit)
    /\ last_call.ret = FALSE
    /\ circuit # None
    /\ Len(circuit[1].data) > 0
    /\ InRange(last_call.args.qubit, circuit[1])

(* C3: in every reachable state every qubit referenced by a stored         *)
(* operation is a qubit of the circuit, with an index in [0, N).           *)
C3_QubitIndicesInRange ==
    circuit # None =>
        \A i \in 1..Len(circuit[1].data) :
            \A k \in 1..Len(circuit[1].data[i].qubits) :
                LET q == circuit[1].data[i].qubits[k]
                IN  /\ InRange(q.index, circuit[1])
                    /\ CircuitQubits(circuit[1])[q.index + 1] = q

(* A gate given a negative qubit argument was stored, next to a            *)
(* measurement appended by the builder.                                    *)
C3_Witness ==
    /\ circuit # None
    /\ last_call.op = "add_gate"
    /\ last_call.ret = TRUE
    /\ last_call.args.qubit < 0
    /\ \E i \in 1..Len(circuit[1].data) : circuit[1].data[i].name = "measure"

(* A text is malformed when one of its lines is no statement or names a    *)
(* bit its registers do not hold.                                          *)
Malformed(text) ==
    \E i \in 1..Len(text.body) :
        \/ text.body[i].name \notin QasmNames
        \/ text.body[i].q >= text.nq
        \/ text.body[i].name = "measure" /\ text.body[i].c >= text.nc
        \/ /\ text.body[i].name = "cx"
           /\ (text.body[i].t >= text.nq \/ text.body[i].t = text.body[i].q)

(* C4: load_openqasm is atomic -- on a malformed text it returns False and *)
(* circuit, state_history and current_step are as before the call; on      *)
(* success it returns True and the circuit is the whole circuit of the     *)
(* text.                                                                   *)
C4_LoadAtomic ==
    [][last_call'.op = "load_openqasm" =>
         LET text == last_call'.text
         IN  IF Malformed(text)
             THEN /\ last_call'.ret = FALSE
                  /\ UNCHANGED <<circuit, state_history, current_step>>
             ELSE /\ last_call'.ret = TRUE
                  /\ circuit' # None
                  /\ circuit'[1].qreg = text.qreg
                  /\ circuit'[1].num_qubits = text.nq
                  /\ circuit'[1].num_clbits = text.nc
                  /\ Len(circuit'[1].data) = Len(text.body)
                  /\ \A i \in 1..Len(text.body) :
                        /\ circuit'[1].data[i].name = text.body[i].name
                        /\ circuit'[1].data[i].qubits[1].index = text.body[i].q]_vars

(* A text whose first line is a valid statement and whose second is not    *)
(* was refused while a circuit with a built history was held.              *)
C4_Witness ==
    /\ last_call.op = "load_openqasm"
    /\ last_call.ret = FALSE
    /\ Len(last_call.text.body) = 2
    /\ last_call.text.body[1].name = "h"
    /\ last_call.text.body[2] = QasmGarbage
    /\ circuit # None
    /\ Len(circuit[1].data) > 0
    /\ Len(state_history) > 0

(* C5: creating a circuit with a qubit count below 1 fails and leaves the  *)
(* session with no circuit set.                                            *)
C5_CreateBelowOneFails ==
    (last_call.op = "create_circuit" /\ last_call.num_qubits < 1)
        => (last_call.raised /\ circuit = None)

(* C6: simulate_circuit with no circuit set, or on a circuit of 0 qubits,  *)
(* returns an error record.                                                *)
C6_NoCircuitIsAnError ==
    (/\ last_call.op = "simulate_circuit"
     /\ (circuit = None \/ circuit[1].num_qubits = 0))
        => last_call.ret.kind = "error"

(* The circuit simulate_circuit hands to the engine: the measurement-free  *)
(* copy when the circuit holds a measurement, the circuit itself otherwise *)
EngineInput(c) ==
    IF HasMeasurements(c)
    THEN [c EXCEPT !.data = NonMeasure(c.data)]
    ELSE c

(* C7: when the engine fails on the full circuit, simulate_circuit returns *)
(* a record carrying an 'error' message.                                   *)
C7_EngineFailureIsAnError ==
    (/\ last_call.op = "simulate_circuit"
     /\ circuit # None
     /\ Len(EngineInput(circuit[1]).data) > 0
     /\ StatevectorFromInstruction(EngineInput(circuit[1]), 0) = None)
        => last_call.ret.kind = "error"

(* C8: for a circuit with a measurement the statevector is that of the     *)
(* non-measurement operations in their order, it is none exactly when      *)
(* there is no such operation, the counts are sampled from the original    *)
(* circuit, and partial_traces is derived from the statevector when        *)
(* present and empty otherwise.                                            *)
C8_MeasurementBranch ==
    (/\ last_call.op = "simulate_circuit"
     /\ circuit # None
     /\ HasMeasurements(circuit[1])
     /\ last_call.ret.kind = "result")
        => LET r == last_call.ret
               rest == NonMeasure(circuit[1].data)
           IN  /\ (r.statevector = None) <=> (rest = <<>>)
               /\ r.statevector # None => r.statevector[1].prepared_by = rest
               /\ r.counts # None => r.counts[1].sampled_from = circuit[1].data
               /\ Len(r.partial_traces) =
                     IF r.statevector = None THEN 0 ELSE circuit[1].num_qubits
               /\ r.statevector # None =>
                     r.partial_traces = CalculatePartialTraces(r.statevector[1])

(* C9: for a circuit of N qubits without measurement simulate_circuit      *)
(* returns has_measurements = false, no counts, the statevector of the     *)
(* full circuit and N partial traces, one per qubit index.                 *)
C9_NoMeasurementBranch ==
    (/\ last_call.op = "simulate_circuit"
     /\ circuit # None
     /\ ~HasMeasurements(circuit[1]))
        => LET r == last_call.ret
           IN  /\ r.kind = "result"
               /\ r.has_measurements = FALSE
               /\ r.counts = None
               /\ r.statevector # None
               /\ r.statevector[1].prepared_by = circuit[1].data
               /\ Len(r.partial_traces) = circuit[1].num_qubits
               /\ \A k \in 1..Len(r.partial_traces) : r.partial_traces[k].keep = k - 1

(* The non-measurement operations the engine can produce a state for: the  *)
(* prefix of non-measurement operations ending at each holds no operation  *)
(* the engine raises on.                                                   *)
EmittingOps(c) ==
    LET rest == NonMeasure(c.data)
    IN  SelectSeq([i \in 1..Len(rest) |-> [pos |-> i, inst |-> rest[i]]],
                  LAMBDA e : \A j \in 1..e.pos : ~EngineRaisesOn(rest[j]))

(* C10: after a build the history holds, in circuit order, one record per  *)
(* non-measurement operation (none for a measurement, none for a step the  *)
(* engine cannot produce), with that operation's gate name and qubits and  *)
(* with step equal to its position in the history.                         *)
C10_HistoryFollowsCircuit ==
    (/\ last_call.op \in {"_build_state_history", "simulate_circuit"}
     /\ circuit # None)
        => LET ops == EmittingOps(circuit[1])
           IN  /\ Len(state_history) = Len(ops)
               /\ \A i \in 1..Len(state_history) :
                     /\ state_history[i].step = i - 1
                     /\ state_history[i].gate = ops[i].inst.name
                     /\ state_history[i].qubits =
                           [k \in 1..Len(ops[i].inst.qubits) |->
                               ops[i].inst.qubits[k].index]

(* The engine produces a state for every prefix of the non-measurement     *)
(* operations: none of them lacks a matrix.                                *)
EngineNeverFails(c) ==
    LET rest == NonMeasure(c.data)
    IN  \A k \in 1..Len(rest) :
            StatevectorFromInstruction([c EXCEPT !.data = SubSeq(rest, 1, k)], 0) # None

(* C11: after state-history building the history holds at most as many     *)
(* records as the circuit has non-measurement operations, and exactly as   *)
(* many when the engine and the partial-trace computation never fail.      *)
C11_HistoryLength ==
    (/\ last_call.op \in {"_build_state_history", "simulate_circuit"}
     /\ circuit # None)
        => LET n == Len(NonMeasure(circuit[1].data))
           IN  /\ Len(state_history) <= n
               /\ EngineNeverFails(circuit[1]) => Len(state_history) = n

(* C12: when, during a build, the engine cannot produce the state of the   *)
(* prefix ending at some operation, that step is dropped with a warning    *)
(* and no record, the operation stays in the accumulator, every later      *)
(* operation is appended to the same accumulator, and the build visits     *)
(* every operation of the circuit and returns without raising.             *)
C12_FailingStepIsDropped ==
    (/\ last_call.op = "_build_state_history"
     /\ Len(last_call.warnings) > 0)
        => LET rest == NonMeasure(circuit[1].data)
               failing == {k \in 1..Len(rest) :
                              StatevectorFromInstruction(
                                  [circuit[1] EXCEPT !.qreg = "q",
                                                     !.num_clbits = 0,
                                                     !.data = SubSeq(rest, 1, k)], 0) = None}
           IN  /\ ~last_call.raised
               /\ last_call.visited = Len(circuit[1].data)
               /\ last_call.accumulator[1].data = rest
               /\ Len(last_call.warnings) = Cardinality(failing)
               /\ Len(state_history) = Len(rest) - Cardinality(failing)
               /\ \A i \in 1..Len(state_history) :
                     /\ state_history[i].step = i - 1
                     /\ state_history[i].statevector.prepared_by = SubSeq(rest, 1, i)

(* A build met an opaque gate first and a supported gate after it: both    *)
(* are in the accumulator and both steps were dropped.                     *)
C12_Witness ==
    /\ last_call.op = "_build_state_history"
    /\ Len(last_call.warnings) = 2
    /\ circuit # None
    /\ Len(circuit[1].data) = 2
    /\ circuit[1].data[1].name = "mygate"
    /\ circuit[1].data[2].name = "h"
    /\ Len(last_call.accumulator[1].data) = 2

(* C13: when the engine never fails, the history a simulation leaves has   *)
(* as many records as the circuit_depth the same simulation reports, and   *)
(* they are indexed 0..depth-1.                                            *)
C13_HistoryLengthIsDepth ==
    (/\ last_call.op = "simulate_circuit"
     /\ circuit # None
     /\ last_call.ret.kind = "result"
     /\ EngineNeverFails(circuit[1]))
        => /\ Len(state_history) = last_call.ret.circuit_depth
           /\ \A i \in 1..Len(state_history) : state_history[i].step = i - 1

(* C14: simulate_circuit and _build_state_history never change the         *)
(* circuit: whatever they return, its qubit count, classical-bit count and *)
(* operation list are those of before the call.                            *)
C14_DerivationLeavesCircuit ==
    [][last_call'.op \in {"simulate_circuit", "_build_state_history"}
          => circuit' = circuit]_vars

(* A simulation of a circuit holding a gate and a measurement returned an  *)
(* error record.                                                           *)
C14_Witness ==
    /\ last_call.op = "simulate_circuit"
    /\ last_call.ret.kind = "error"
    /\ circuit # None
    /\ HasMeasurements(circuit[1])
    /\ Len(NonMeasure(circuit[1].data)) > 0

(* The history holds one record per non-measurement operation of the       *)
(* circuit, each naming its operation: it was built from these operations. *)
HistoryIsBuiltFrom(hist, c) ==
    LET rest == NonMeasure(c.data)
    IN  /\ Len(hist) = Len(rest)
        /\ Len(rest) > 0
        /\ \A i \in 1..Len(rest) :
              /\ hist[i].gate = rest[i].name
              /\ hist[i].qubits = [k \in 1..Len(rest[i].qubits) |-> rest[i].qubits[k].index]

(* C15: derived state is deterministic -- when the history was built from  *)
(* the circuit held and is built again from it (by _build_state_history or *)
(* by simulate_circuit), the new StepRecord sequence is identical to the   *)
(* old one, and the statevector and partial_traces simulate_circuit        *)
(* returns are those of the last step of that history when the circuit     *)
(* has no measurement.                                                     *)
C15_DerivedStateDeterministic ==
    [][(/\ last_call'.op \in {"_build_state_history", "simulate_circuit"}
        /\ circuit # None
        /\ HistoryIsBuiltFrom(state_history, circuit[1]))
       => /\ state_history' = state_history
          /\ (/\ last_call'.op = "simulate_circuit"
              /\ last_call'.ret.kind = "result"
              /\ ~HasMeasurements(circuit[1]))
             => /\ last_call'.ret.statevector =
                      Some(state_history[Len(state_history)].statevector)
                /\ last_call'.ret.partial_traces =
                      state_history[Len(state_history)].partial_traces]_vars

(* An operation of the circuit cannot be appended to a fresh               *)
(* QuantumCircuit(num_qubits): the measurement-free copy and the history's *)
(* accumulator both append the circuit's non-measurement operations to     *)
(* one, so either both raise or neither does.                              *)
AnAppendRaises(c) ==
    CopyNoMeasure(c.data, 1, QuantumCircuit(c.num_qubits, 0)[1]) = None

(* C16: simulate_circuit never raises to its caller -- with no circuit,    *)
(* with or without measurements, whether or not the engine, the sampling,  *)
(* the measurement-free copy or the history build fails, the call returns  *)
(* a record: the empty record, a result record or an error record; a       *)
(* failure that ends the simulation comes back as an error record.         *)
C16_SimulateNeverRaises ==
    last_call.op = "simulate_circuit"
        => /\ last_call.ret.kind \in {"empty", "result", "error"}
           /\ (circuit # None /\ AnAppendRaises(circuit[1]))
                 => last_call.ret.kind = "error"

(* A simulation of a measurement-free circuit whose history build raised   *)
(* came back as an error record.                                           *)
C16_Witness ==
    /\ last_call.op = "simulate_circuit"
    /\ circuit # None
    /\ ~HasMeasurements(circuit[1])
    /\ BuildStateHistoryOf(circuit[1], [i \in 1..Len(circuit[1].data) |-> 0]).raised
    /\ last_call.ret.kind = "error"

(* The call reaches one of add_gate's branches, so a False it returns      *)
(* comes from the exception handler.                                       *)
SelectsBranch(a) ==
    \/ Lower(a.gate_name) \in SingleQubitGates
    \/ Lower(a.gate_name) \in RotationGates /\ a.angle # None
    \/ Lower(a.gate_name) \in TwoQubitGates /\ a.target_qubit # None

(* C17: no operation swallows an error without a diagnosable cause --      *)
(* when add_gate or load_openqasm catches an exception something about     *)
(* its cause is logged, when the engine fails inside simulate_circuit the  *)
(* record returned carries the reason, and every step the history build    *)
(* drops has its warning.                                                  *)
C17_FailuresCarryACause ==
    /\ (/\ last_call.op = "add_gate"
        /\ circuit # None
        /\ SelectsBranch(last_call.args)
        /\ last_call.ret = FALSE)
           => Len(last_call.logged) > 0
    /\ (last_call.op = "load_openqasm" /\ last_call.ret = FALSE)
           => Len(last_call.logged) > 0
    /\ (/\ last_call.op = "simulate_circuit"
        /\ circuit # None
        /\ last_call.ret.kind = "result"
        /\ Len(EngineInput(circuit[1]).data) > 0
        /\ last_call.ret.statevector = None)
           => "error" \in DOMAIN last_call.ret
    /\ (last_call.op = "_build_state_history" /\ circuit # None /\ ~last_call.raised)
           => Len(last_call.warnings) =
                 Len(NonMeasure(circuit[1].data)) - Len(state_history)

(* The basis index made of the bits of rest with bit a put in at qubit k *)
InsertBit(rest, k, a) ==
    (rest \div Pow2(k)) * Pow2(k + 1) + a * Pow2(k) + (rest % Pow2(k))

(* C18: for a statevector over N qubits _calculate_partial_traces returns  *)
(* N matrices of 2 x 2, and entry (a, b) of the matrix at position k is    *)
(* the sum, over the assignments of the other N-1 qubits, of psi[index     *)
(* with bit k = a] * conj(psi[index with bit k = b]), qubit k being bit k  *)
(* of the index.                                                           *)
C18_PartialTraceIsReducedState ==
    last_call.op = "_calculate_partial_traces"
        => LET psi == last_call.statevector
               N == Log2Int(Len(psi.data))
               others == 0..(Pow2(N - 1) - 1)
           IN  /\ Len(last_call.ret) = N
               /\ \A k \in 0..(N - 1) :
                     LET m == last_call.ret[k + 1]
                     IN  /\ Len(m.rho) = 2
                         /\ m.den = psi.norm2
                         /\ \A a \in 0..1 :
                               /\ Len(m.rho[a + 1]) = 2
                               /\ \A b \in 0..1 :
                                     m.rho[a + 1][b + 1] =
                                        CSum([rest \in others |->
                                                CMul(psi.data[InsertBit(rest, k, a) + 1],
                                                     CConj(psi.data[InsertBit(rest, k, b) + 1]))],
                                             others)

(* The partial traces of a two-qubit vector with qubit 0 set and qubit 1   *)
(* clear were computed: the first matrix is |1><1|, the second |0><0|.     *)
C18_Witness ==
    /\ last_call.op = "_calculate_partial_traces"
    /\ last_call.statevector.data = <<CZero, COne, CZero, CZero>>
    /\ last_call.ret[1].rho = <<<<CZero, CZero>>, <<CZero, COne>>>>
    /\ last_call.ret[2].rho = <<<<COne, CZero>>, <<CZero, CZero>>>>

(* Squared norm of the vector times its divisor norm2 *)
NormWeight(psi) ==
    NatSum([i \in 1..Len(psi.data) |-> CAbs2(psi.data[i])], 1..Len(psi.data))

(* C19: given a statevector over one qubit or more that is not            *)
(* normalized, _calculate_partial_traces reports an error instead of       *)
(* returning the matrices, whose trace is not 1.                           *)
C19_UnnormalizedIsInvalidState ==
    (/\ last_call.op = "_calculate_partial_traces"
     /\ Len(last_call.statevector.data) > 1
     /\ NormWeight(last_call.statevector) # last_call.statevector.norm2)
        => last_call.raised

(* Angles that are not finite numbers *)
NotFinite(angle) == angle = Some("inf")

(* C20: a rotation gate is accepted only with a finite angle -- add_gate   *)
(* of rx, ry or rz without an angle or with an infinite one returns False  *)
(* and leaves the circuit unchanged -- and for any other gate a supplied   *)
(* angle is ignored: the call does what it does without the angle.         *)
C20_RotationNeedsFiniteAngle ==
    [][(last_call'.op = "add_gate" /\ circuit # None)
       => LET a == last_call'.args
          IN  /\ (/\ Lower(a.gate_name) \in RotationGates
                  /\ (a.angle = None \/ NotFinite(a.angle)))
                    => (last_call'.ret = FALSE /\ circuit' = circuit)
              /\ (Lower(a.gate_name) \notin RotationGates /\ a.angle # None)
                    => LET plain == AddGateTo(circuit[1], a.gate_name, a.qubit,
                                              a.target_qubit, None)
                       IN  /\ last_call'.ret = plain.ok
                           /\ circuit' = Some(plain.circuit)]_vars

-----------------------------------------------------------------------------
(* simulate_circuit called directly with any shot count, below 1 included, *)
(* on circuits of h gates and measurements.                                *)

ShotsBelowOne == {-1, 0}
AnyShots == ShotsBelowOne \cup {1, DefaultShots}
HadamardCalls == {GateCall("h", q, None, None) : q \in 0..(MaxQubits - 1)}
NoDraw == [i \in 1..(MaxOps + 1) |-> 0]

NextShots ==
    \/ \E n \in QubitCounts, m \in ClbitCounts : CreateCircuit(n, m)
    \/ \E call \in HadamardCalls : AddGate(call)
    \/ AddMeasurement
    \/ \E shots \in AnyShots : SimulateCircuit(shots, NoDraw)
    \/ Return

SpecShots == Init /\ [][NextShots]_vars

-----------------------------------------------------------------------------
(* C21: a shot count below 1 is rejected -- simulate_circuit called on a   *)
(* set circuit with shots < 1 does not return a result record.             *)
C21_ShotsBelowOneRejected ==
    (/\ last_call.op = "simulate_circuit"
     /\ last_call.shots < 1
     /\ circuit # None)
        => last_call.ret.kind # "result"

-----------------------------------------------------------------------------
(* The ways a call can bind num_classical_bits to m: TRUE for a count      *)
(* passed by the caller, FALSE for the omitted argument, which binds the   *)
(* default 0.                                                              *)
CountGiven(m) == IF m = 0 THEN {TRUE, FALSE} ELSE {TRUE}

(* C22: create_circuit(n) with n >= 1 replaces the circuit by one of n     *)
(* qubits and no operation, with n classical bits when no count is given   *)
(* and with the given count of classical bits when one is given, 0         *)
(* included.                                                               *)
C22_CreateReplacesCircuit ==
    (/\ last_call.op = "create_circuit"
     /\ last_call.num_qubits >= 1)
        => /\ ~last_call.raised
           /\ circuit # None
           /\ circuit[1].num_qubits = last_call.num_qubits
           /\ circuit[1].data = <<>>
           /\ \A given \in CountGiven(last_call.num_classical_bits) :
                 circuit[1].num_clbits = IF given THEN last_call.num_classical_bits
                                         ELSE last_call.num_qubits

-----------------------------------------------------------------------------
(* The roles add_gate's documentation gives its parameters for a two-qubit *)
(* gate ("target_qubit: Control qubit for two-qubit gates"), and the roles *)
(* the library gives the qubits of a stored cx/cy/cz (control first).      *)
DocumentedControl(call) == call.target_qubit[1]
DocumentedTarget(call) == call.qubit
ControlOf(inst) == inst.qubits[1]
TargetOf(inst) == inst.qubits[2]

(* C23: a two-qubit gate appended by add_gate(gate_name, qubit,            *)
(* target_qubit) has the parameter target_qubit as its control and the     *)
(* parameter qubit as its target, as the documentation states.             *)
C23_ParametersAsDocumented ==
    (/\ last_call.op = "add_gate"
     /\ last_call.ret = TRUE
     /\ Lower(last_call.args.gate_name) \in TwoQubitGates)
        => LET c == circuit[1]
               inst == c.data[Len(c.data)]
           IN  /\ Some(ControlOf(inst)) =
                     QbitArgumentConversion(c, DocumentedControl(last_call.args))
               /\ Some(TargetOf(inst)) =
                     QbitArgumentConversion(c, DocumentedTarget(last_call.args))


-----------------------------------------------------------------------------
(* The circuit _create_bell_state builds: create_circuit(2),               *)
(* add_gate('h', 0), add_gate('cx', 0, 1)                                  *)
BellTemplate ==
    LET made == QuantumCircuit(2, 2)[1]
        with_h == AddGateTo(made, "h", 0, None, None).circuit
    IN  AddGateTo(with_h, "cx", 0, Some(1), None).circuit

IsHalf(x) == x.den > 0 /\ 2 * x.num = x.den
IsZero(x) == x.den > 0 /\ x.num = 0

HoldsBellCircuit ==
    /\ circuit # None
    /\ circuit[1].num_qubits = 2
    /\ circuit[1].data = BellTemplate.data

(* C24: when simulate_circuit has run on the 2-qubit circuit [H on qubit   *)
(* 0, CX with control 0 and target 1], the result has two partial traces,  *)
(* each of purity 1/2 and Bloch vector (0, 0, 0), and the page and the     *)
(* table give both qubits the label of a purity of 1/2, highly mixed.      *)
C24_BellReducedStates ==
    (last_call.op = "simulate_circuit" /\ HoldsBellCircuit) =>
        /\ last_call.ret.kind = "result"
        /\ Len(last_call.ret.partial_traces) = 2
        /\ \A k \in 1..2 :
              LET dm == last_call.ret.partial_traces[k]
                  purity == GetPurity(dm)
                  bloch == GetBlochCoordinates(dm)
              IN  /\ dm.keep = k - 1
                  /\ IsHalf(purity)
                  /\ IsZero(bloch.x) /\ IsZero(bloch.y) /\ IsZero(bloch.z)
                  /\ PageLabel(purity) = PageLabel(Frac(1, 2))
                  /\ PageLabel(purity) = "Highly Mixed State"
                  /\ TableLabel(purity) = "Highly Mixed"

(* The Bell circuit has been simulated and the result holds two matrices *)
C24_Witness ==
    /\ last_call.op = "simulate_circuit"
    /\ HoldsBellCircuit
    /\ last_call.ret.kind = "result"
    /\ Len(last_call.ret.partial_traces) = 2


-----------------------------------------------------------------------------
DerivedStateCleared == state_history = <<>> /\ current_step = 0

(* C28: when reset_circuit has returned the circuit is unset, the history  *)
(* is empty and current_step is 0; when create_circuit has returned        *)
(* without raising, or load_openqasm has returned True, the history is     *)
(* empty and current_step is 0.                                            *)
C28_ReplacingClearsDerivedState ==
    /\ last_call.op = "reset_circuit" =>
          circuit = None /\ DerivedStateCleared
    /\ (last_call.op = "create_circuit" /\ ~last_call.raised) =>
          circuit # None /\ DerivedStateCleared
    /\ (last_call.op = "load_openqasm" /\ last_call.ret) =>
          circuit # None /\ DerivedStateCleared

(* reset_circuit has just returned *)
C28_Witness ==
    /\ last_call.op = "reset_circuit"
    /\ circuit = None
    /\ state_history = <<>>


-----------------------------------------------------------------------------
(* The history a build of circuit c leaves: one record per operation the   *)
(* engine produces a state for, naming its gate and qubits.                *)
HistoryOfCircuit(hist, c) ==
    LET ops == EmittingOps(c)
    IN  /\ Len(hist) = Len(ops)
        /\ \A i \in 1..Len(hist) :
              /\ hist[i].gate = ops[i].inst.name
              /\ hist[i].qubits =
                    [k \in 1..Len(ops[i].inst.qubits) |-> ops[i].inst.qubits[k].index]

(* C26: in every reachable state the history is empty or is the history of *)
(* the circuit the analyzer holds now, not of an earlier version of it.    *)
C26_HistoryIsOfCurrentCircuit ==
    state_history # <<>> =>
        circuit # None /\ HistoryOfCircuit(state_history, circuit[1])


-----------------------------------------------------------------------------
(* The measurements Add Measurement is to append: qubit i into classical   *)
(* bit i, for i = 0 .. N - 1 in this order.                                *)
AllMeasurements(c) ==
    [k \in 1..c.num_qubits |->
        Instruction("measure", <<CircuitQubits(c)[k]>>, Some(k - 1), <<>>)]

(* C29: Add Measurement is all-or-nothing -- the circuit afterwards is the *)
(* circuit before with one measurement per qubit appended, qubit i into    *)
(* classical bit i in increasing order, or it is the circuit before.       *)
C29_AddMeasurementAllOrNothing ==
    [][last_call'.op = "add_measurement" =>
          \/ circuit' = circuit
          \/ /\ ~last_call'.raised
             /\ circuit' = Some([circuit[1] EXCEPT
                                   !.data = @ \o AllMeasurements(circuit[1])])]_vars


-----------------------------------------------------------------------------
(* The purity labels on 2x2 matrices handed to the page and to the table.  *)
(* The matrices are rho / den with small integer entries: normalized and   *)
(* not, Hermitian and not, and the matrix 0/0 whose entries are NaN.       *)

MaxEntry == 10

MatrixInputs ==
    {[keep |-> 0,
      rho |-> <<<<<<a, 0>>, c>>, <<IF herm THEN CConj(c) ELSE c, <<b, 0>>>>>>,
      den |-> MaxEntry] :
        a \in 0..MaxEntry, b \in 0..MaxEntry,
        c \in {CZero, COne, <<0, 1>>}, herm \in BOOLEAN}
      \cup {[keep |-> 0, rho |-> <<<<CZero, CZero>>, <<CZero, CZero>>>>, den |-> 0]}

(* One qubit's block of show_visualization_page: the purity of the matrix  *)
(* and the label shown for it                                              *)
ShowQubitAnalysis(density_matrix) ==
    /\ last_call = Idle
    /\ UNCHANGED session
    /\ last_call' = [op |-> "show_visualization_page",
                     density_matrix |-> density_matrix,
                     purity |-> GetPurity(density_matrix),
                     state_type |-> Some(PageLabel(GetPurity(density_matrix))),
                     reported |-> <<>>]
    /\ UNCHANGED <<circuit, state_history, current_step>>

(* create_qubit_analysis_table([density_matrix]): the row of the matrix *)
CreateQubitAnalysisTable(density_matrix) ==
    /\ last_call = Idle
    /\ UNCHANGED session
    /\ last_call' = [op |-> "create_qubit_analysis_table",
                     density_matrix |-> density_matrix,
                     purity |-> GetPurity(density_matrix),
                     state_type |-> Some(TableLabel(GetPurity(density_matrix))),
                     reported |-> <<>>]
    /\ UNCHANGED <<circuit, state_history, current_step>>

NextLabels ==
    \/ \E density_matrix \in MatrixInputs : ShowQubitAnalysis(density_matrix)
    \/ \E density_matrix \in MatrixInputs : CreateQubitAnalysisTable(density_matrix)
    \/ Return

SpecLabels == Init /\ [][NextLabels]_vars

(* The class a label of the page or of the table names *)
ClassOf(label) ==
    CASE label \in {"Pure State", "Pure"} -> "pure"
      [] label \in {"Mixed State", "Mixed"} -> "mixed"
      [] label \in {"Highly Mixed State", "Highly Mixed"} -> "highly mixed"

(* 0 <= x <= 1 *)
InUnitRange(x) == x.den > 0 /\ 0 <= x.num /\ x.num <= x.den

(* The class the thresholds give a purity *)
ClassByThreshold(x) ==
    IF x.num * 100 > 99 * x.den THEN "pure"
    ELSE IF x.num * 2 > x.den THEN "mixed"
    ELSE "highly mixed"

(* The page and the table label a purity in [0, 1] by the thresholds, and  *)
(* alike.                                                                  *)
LabelsFollowThresholds ==
    (last_call.op \in {"show_visualization_page", "create_qubit_analysis_table"}
     /\ InUnitRange(last_call.purity)) =>
        /\ last_call.state_type # None
        /\ ClassOf(last_call.state_type[1]) = ClassByThreshold(last_call.purity)
        /\ ClassOf(PageLabel(last_call.purity)) = ClassOf(TableLabel(last_call.purity))

(* C30: the page and the table give a purity in [0, 1] the label of the    *)
(* thresholds (> 0.99 pure, > 0.5 mixed, else highly mixed), the same in   *)
(* both, and a purity outside [0, 1] gets no label but is reported as an   *)
(* error.                                                                  *)
C30_ClassificationTotalAndChecked ==
    /\ LabelsFollowThresholds
    /\ (last_call.op \in {"show_visualization_page", "create_qubit_analysis_table"}
        /\ ~InUnitRange(last_call.purity)) =>
           /\ last_call.state_type = None
           /\ last_call.reported # <<>>


-----------------------------------------------------------------------------
(* The Streamlit session.  Each button handler runs to completion within   *)
(* one script run; simulation_results and session_current_step are the     *)
(* session's own entries, next to the analyzer's fields.                   *)

(* Selections of the builder's gate widgets on circuit c: a single-qubit   *)
(* gate on any qubit of the circuit, a two-qubit gate with control 0 and   *)
(* any other qubit as target.                                              *)
GateSelections(c) ==
    {GateCall("h", q, None, None) : q \in 0..(c.num_qubits - 1)}
      \cup {GateCall("cx", 0, Some(t), None) : t \in 1..(c.num_qubits - 1)}

(* The texts pasted into the builder: on register q, with at most one      *)
(* statement line.                                                         *)
PastedTexts == {t \in QasmTexts : t.qreg = "q" /\ Len(t.body) <= 1}

(* The "Number of Qubits" input: at least 1 *)
QubitCountInputs == 1..MaxQubits

(* Sidebar "Quick Demo": the Bell template, then a simulation whose result *)
(* is stored in the session                                                *)
QuickDemo ==
    /\ last_call = Idle
    /\ \E r \in {SimulateCircuitOf(BellTemplate, <<>>, DefaultShots,
                                   [i \in 1..3 |-> 0])} :
          /\ state_history' = r.history
          /\ simulation_results' = r.ret
    /\ circuit' = Some(BellTemplate)
    /\ current_step' = 0
    /\ last_call' = [op |-> "quick_demo"]
    /\ UNCHANGED session_current_step

(* Sidebar "Reset All" *)
ResetAll ==
    /\ last_call = Idle
    /\ circuit' = None
    /\ state_history' = <<>>
    /\ current_step' = 0
    /\ simulation_results' = EmptyResult
    /\ session_current_step' = 0
    /\ last_call' = [op |-> "reset_all"]

(* Builder "Create New Circuit" *)
CreateNewCircuit(num_qubits) ==
    /\ last_call = Idle
    /\ circuit' = QuantumCircuit(num_qubits, num_qubits)
    /\ state_history' = <<>>
    /\ current_step' = 0
    /\ last_call' = [op |-> "create_new_circuit", num_qubits |-> num_qubits]
    /\ UNCHANGED session

(* Builder "Reset Circuit" and "Clear Circuit": both call reset_circuit()  *)
(* and are shown only while a circuit is set.                              *)
ClearCircuit(button) ==
    /\ last_call = Idle
    /\ circuit # None
    /\ circuit' = None
    /\ state_history' = <<>>
    /\ current_step' = 0
    /\ last_call' = [op |-> button]
    /\ UNCHANGED session

(* Builder "Add Gate" with the selections the widgets offer *)
AddGateButton ==
    /\ last_call = Idle
    /\ circuit # None
    /\ Len(circuit[1].data) < MaxOps
    /\ \E call \in GateSelections(circuit[1]) :
          LET a == AddGateTo(circuit[1], call.gate_name, call.qubit,
                             call.target_qubit, call.angle)
          IN  /\ circuit' = Some(a.circuit)
              /\ last_call' = [op |-> "add_gate_button", args |-> call, ret |-> a.ok]
    /\ UNCHANGED <<state_history, current_step>>
    /\ UNCHANGED session

(* Builder and home page "Bell State" template: the circuit only *)
BellStateTemplate ==
    /\ last_call = Idle
    /\ circuit' = Some(BellTemplate)
    /\ state_history' = <<>>
    /\ current_step' = 0
    /\ last_call' = [op |-> "bell_state_template"]
    /\ UNCHANGED session

(* Builder "Load from Text" / "Load Circuit" *)
LoadFromText(text) ==
    /\ last_call = Idle
    /\ \E parsed \in {FromQasmStr(text)} :
          /\ circuit' = IF parsed = None THEN circuit ELSE parsed
          /\ state_history' = IF parsed = None THEN state_history ELSE <<>>
          /\ last_call' = [op |-> "load_from_text", text |-> text,
                           ret |-> parsed # None]
          /\ current_step' = IF parsed = None THEN current_step ELSE 0
    /\ UNCHANGED session

(* Builder "Add Measurement" *)
AddMeasurementButton ==
    /\ last_call = Idle
    /\ circuit # None
    /\ Len(circuit[1].data) + circuit[1].num_qubits <= MaxOps
    /\ \E r \in {MeasureAll(circuit[1], 0)} :
          /\ circuit' = Some(r.circuit)
          /\ last_call' = [op |-> "add_measurement_button", raised |-> r.raised]
    /\ UNCHANGED <<state_history, current_step>>
    /\ UNCHANGED session

(* Simulation page "Run Simulation": shown only while a circuit is set *)
RunSimulation(shots, rng) ==
    /\ last_call = Idle
    /\ circuit # None
    /\ \E r \in {SimulateCircuitOf(circuit[1], state_history, shots, rng)} :
          /\ state_history' = r.history
          /\ simulation_results' = r.ret
    /\ last_call' = [op |-> "run_simulation", shots |-> shots]
    /\ UNCHANGED <<circuit, current_step, session_current_step>>

(* What the step-by-step page does below its guards with history hist at   *)
(* index step: the progress bar takes (step + 1) / total_steps, and        *)
(* whether it raises on a value above 1.0 is Streamlit's choice; then      *)
(* state_history[step] is read.                                            *)
StepPageBody(hist, step, progress_raises) ==
    IF step + 1 > Len(hist) /\ progress_raises
    THEN [outcome |-> "progress_error", read |-> None, total_steps |-> Len(hist)]
    ELSE [outcome |-> IF step < Len(hist) THEN "shown" ELSE "index_error",
          read |-> Some(step), total_steps |-> Len(hist)]

(* The navigation of the step-by-step page on history hist: "Previous      *)
(* Step" and "Next Step" move the session's current_step inside            *)
(* [0, total_steps - 1] and rerun the script; the progress bar of the      *)
(* first run sits between the two buttons.                                 *)
StepPageNavigation(hist, step, click, progress_raises) ==
    IF click = "previous" /\ step > 0
    THEN [step |-> step - 1, page |-> StepPageBody(hist, step - 1, progress_raises)]
    ELSE IF step + 1 > Len(hist) /\ progress_raises
    THEN [step |-> step, page |-> StepPageBody(hist, step, progress_raises)]
    ELSE IF click = "next" /\ step < Len(hist) - 1
    THEN [step |-> step + 1, page |-> StepPageBody(hist, step + 1, progress_raises)]
    ELSE [step |-> step, page |-> StepPageBody(hist, step, progress_raises)]

NoPage == [outcome |-> "warning", read |-> None, total_steps |-> 0]

(* One visit of the step-by-step page, with at most one button clicked:   *)
(* nothing is shown without a result or with an error result; an empty     *)
(* history is rebuilt first, and the page stops if the build raises or     *)
(* leaves it empty.                                                        *)
ShowStepByStepPage(click, progress_raises, rng) ==
    /\ last_call = Idle
    /\ \E b \in {IF /\ simulation_results # EmptyResult
                      /\ simulation_results.kind # "error"
                      /\ state_history = <<>>
                      /\ circuit # None
                   THEN BuildStateHistoryOf(circuit[1], rng)
                   ELSE [history |-> state_history, raised |-> FALSE]} :
          /\ state_history' = b.history
          /\ \E nav \in {IF \/ simulation_results = EmptyResult
                            \/ simulation_results.kind = "error"
                            \/ b.raised
                            \/ b.history = <<>>
                         THEN [step |-> session_current_step, page |-> NoPage]
                         ELSE StepPageNavigation(b.history, session_current_step,
                                                 click, progress_raises)} :
                /\ session_current_step' = nav.step
                /\ last_call' = [op |-> "show_step_by_step_page", click |-> click,
                                 page |-> nav.page]
    /\ UNCHANGED <<circuit, current_step, simulation_results>>

Clicks == {"none", "previous", "next"}

NextSession ==
    \/ QuickDemo
    \/ ResetAll
    \/ \E num_qubits \in QubitCountInputs : CreateNewCircuit(num_qubits)
    \/ \E button \in {"reset_circuit_button", "clear_circuit_button"} :
          ClearCircuit(button)
    \/ AddGateButton
    \/ BellStateTemplate
    \/ \E text \in PastedTexts : LoadFromText(text)
    \/ AddMeasurementButton
    \/ \E shots \in ShotsInputs, rng \in GeneratorDraws(circuit) :
          RunSimulation(shots, rng)
    \/ \E click \in Clicks, progress_raises \in BOOLEAN,
          rng \in GeneratorDraws(circuit) :
          ShowStepByStepPage(click, progress_raises, rng)
    \/ Return

SpecSession == Init /\ [][NextSession]_vars


ResultBelongsTo(res, c) ==
    res.kind = "result" =>
        /\ res.num_qubits = c.num_qubits
        /\ res.num_gates = CountOps(c)
        /\ res.circuit_depth = Depth(c)
        /\ res.has_measurements = HasMeasurements(c)

(* C27: in every reachable state the session's simulation_results is empty *)
(* or belongs to the circuit the analyzer holds: with no circuit, or with  *)
(* a circuit changed since the simulation, it is empty.                    *)
C27_ResultBelongsToCircuit ==
    simulation_results # EmptyResult =>
        circuit # None /\ ResultBelongsTo(simulation_results, circuit[1])

=============================================================================
